---- MODULE Spec2Model ----
(***************************************************************************)
(* Model of the interval-annotation timeline of flipper_annotator.py       *)
(* (class VideoAnnotationApp).  The timeline is the list self.annotations  *)
(* of dicts {start_frame, end_frame, type}; self.current_annotation is a   *)
(* reference to the dict that playback is extending (or None).             *)
(*                                                                         *)
(* Python dicts are objects: current_annotation aliases one element of     *)
(* annotations until the list is rebuilt or replaced.  The model keeps the *)
(* referenced dict's value in current_annotation and the position of that  *)
(* dict in annotations in cur_index (0 when the dict is in no list the     *)
(* application still holds).                                               *)
(*                                                                         *)
(* last is a record of the last operation: its name, its inputs and the    *)
(* state it started from (pre).  annotate and load_annotations end with    *)
(* set_annotations(self.annotations, self.total_frames); total_frames is   *)
(* assigned by load_video only, so before a video is loaded that call      *)
(* raises AttributeError after the list has been updated (raised).         *)
(*                                                                         *)
(* A CSV file is its header line and its rows, each row the tuple of the   *)
(* cell values in column order.  save_annotations writes one, and          *)
(* load_annotations reads one: a file of the catalogue CsvFiles or, in the  *)
(* specification SpecFile, the file the preceding save wrote.              *)
(*                                                                         *)
(* CustomTimeline.paintEvent is a function of the widget's fields: the list *)
(* and frame count that set_annotations passed (the application's own), the *)
(* current frame and the width of the widget.  The specification SpecPaint  *)
(* applies it to every list, frame count, width and current frame of the   *)
(* bounded ranges and records what is drawn in last.                       *)
(*                                                                         *)
(* The position of the video capture (cv2.CAP_PROP_POS_FRAMES) is an       *)
(* input of annotate and next_frame: set_frame lets the user seek to any   *)
(* frame, so every frame of the bounded range can be the current one.      *)
(***************************************************************************)
EXTENDS Integers, Sequences, FiniteSets, TLC

VARIABLES annotations, current_annotation, cur_index, capture, total_frames, last

vars == <<annotations, current_annotation, cur_index, capture, total_frames, last>>

\* ---------------------------------------------------------------- bounds
\* the capture positions are 0..MaxFrame
MaxFrame == 3
\* a label button is pressed only while the list holds at most MaxAnn
\* annotations
MaxAnn == 2

Frames == 0..MaxFrame

\* the annotation types of the label buttons (two of the three are enough
\* to tell a piece of one annotation from a piece of another)
Labels == {"Upside Down", "Right Side Up"}

\* the frame count a loaded video reports (CAP_PROP_FRAME_COUNT)
FrameCounts == {2}

None == [none |-> TRUE]
Unset == -1

Annotation == [start_frame : Frames, end_frame : Frames, type : Labels]

\* ---------------------------------------------------------------- helpers
\* the new interval made half-open: end_frame one past the frame
NewAnnotation_HalfOpen(current_frame, new_annotation_type) ==
    [start_frame |-> current_frame, end_frame |-> current_frame + 1,
     type |-> new_annotation_type]

\* the dict literal of annotate
NewAnnotation(current_frame, new_annotation_type) ==
    [start_frame |-> current_frame, end_frame |-> current_frame,
     type |-> new_annotation_type]

\* the overlap test of process_overlapping_annotations
Contains(annotation, current_frame) ==
    annotation.start_frame <= current_frame /\ current_frame <= annotation.end_frame

\* the part before current_frame keeps current_frame (no "- 1")
Pieces_KeepFrame(annotation, current_frame) ==
    IF Contains(annotation, current_frame)
    THEN (IF annotation.start_frame < current_frame
          THEN <<[start_frame |-> annotation.start_frame,
                  end_frame |-> current_frame,
                  type |-> annotation.type]>>
          ELSE <<>>)
         \o
         (IF annotation.end_frame > current_frame
          THEN <<[start_frame |-> current_frame + 1,
                  end_frame |-> annotation.end_frame,
                  type |-> annotation.type]>>
          ELSE <<>>)
    ELSE <<annotation>>

\* the second "if" written as "elif": no part after current_frame when there
\* is a part before it
Pieces_Elif(annotation, current_frame) ==
    IF Contains(annotation, current_frame)
    THEN (IF annotation.start_frame < current_frame
          THEN <<[start_frame |-> annotation.start_frame,
                  end_frame |-> current_frame - 1,
                  type |-> annotation.type]>>
          ELSE IF annotation.end_frame > current_frame
          THEN <<[start_frame |-> current_frame + 1,
                  end_frame |-> annotation.end_frame,
                  type |-> annotation.type]>>
          ELSE <<>>)
    ELSE <<annotation>>

\* the two tests written with <= and >=: a part is kept on both sides even
\* when current_frame is the first or the last frame
Pieces_Inclusive(annotation, current_frame) ==
    IF Contains(annotation, current_frame)
    THEN (IF annotation.start_frame <= current_frame
          THEN <<[start_frame |-> annotation.start_frame,
                  end_frame |-> current_frame - 1,
                  type |-> annotation.type]>>
          ELSE <<>>)
         \o
         (IF annotation.end_frame >= current_frame
          THEN <<[start_frame |-> current_frame + 1,
                  end_frame |-> annotation.end_frame,
                  type |-> annotation.type]>>
          ELSE <<>>)
    ELSE <<annotation>>

\* what one annotation contributes to updated_annotations
Pieces(annotation, current_frame) ==
    IF Contains(annotation, current_frame)
    THEN (IF annotation.start_frame < current_frame
          THEN <<[start_frame |-> annotation.start_frame,
                  end_frame |-> current_frame - 1,
                  type |-> annotation.type]>>
          ELSE <<>>)
         \o
         (IF annotation.end_frame > current_frame
          THEN <<[start_frame |-> current_frame + 1,
                  end_frame |-> annotation.end_frame,
                  type |-> annotation.type]>>
          ELSE <<>>)
    ELSE <<annotation>>

RECURSIVE process_overlapping_annotations(_, _)
process_overlapping_annotations(anns, current_frame) ==
    IF anns = <<>> THEN <<>>
    ELSE Pieces(Head(anns), current_frame)
         \o process_overlapping_annotations(Tail(anns), current_frame)

\* the write goes to the wrong key
Extend_WrongKey(annotation, current_frame) ==
    [annotation EXCEPT !.start_frame = current_frame]

\* "Extend the end frame of the current annotation"
Extend(annotation, current_frame) ==
    [annotation EXCEPT !.end_frame = current_frame]

\* the same write seen through the list that holds the dict
ExtendAliased(anns, idx, current_frame) ==
    IF idx # 0
    THEN [anns EXCEPT ![idx] = Extend(anns[idx], current_frame)]
    ELSE anns

\* the current annotation is dropped without writing its end_frame
EndCurrent_Skip(anns, cur, idx, current_frame) == anns

\* "End the current annotation if any": the write through the alias
EndCurrent(anns, cur, idx, current_frame) ==
    IF cur # None
    THEN ExtendAliased(anns, idx, current_frame)
    ELSE anns

\* get_current_video_frame: position of the capture, 0 without a capture
get_current_video_frame(pos) == IF capture THEN pos ELSE 0

\* the snapshot of the state an operation started from
Pre == [annotations |-> annotations, current_annotation |-> current_annotation,
        cur_index |-> cur_index]

\* ---------------------------------------------------------------- state
Init ==
    /\ annotations = <<>>
    /\ current_annotation = None
    /\ cur_index = 0
    /\ capture = FALSE
    /\ total_frames = Unset
    /\ last = [op |-> "init"]

\* open_video_file / load_video: the annotations are kept
load_video(count) ==
    /\ capture' = TRUE
    /\ total_frames' = count
    /\ last' = [op |-> "load_video", pre |-> Pre]
    /\ UNCHANGED <<annotations, current_annotation, cur_index>>

\* the overlapping annotations are not processed
annotate_NoResolve(new_annotation_type, pos) ==
    LET current_frame == get_current_video_frame(pos)
        ended == EndCurrent(annotations, current_annotation, cur_index, current_frame)
        new == NewAnnotation(current_frame, new_annotation_type)
    IN /\ Len(annotations) <= MaxAnn
       /\ annotations' = Append(ended, new)
       /\ current_annotation' = new
       /\ cur_index' = Len(ended) + 1
       /\ last' = [op |-> "annotate", frame |-> current_frame,
                   type |-> new_annotation_type,
                   raised |-> (total_frames = Unset), pre |-> Pre]
       /\ UNCHANGED <<capture, total_frames>>

\* the new annotation is inserted first instead of appended
annotate_InsertFirst(new_annotation_type, pos) ==
    LET current_frame == get_current_video_frame(pos)
        ended == EndCurrent(annotations, current_annotation, cur_index, current_frame)
        updated == process_overlapping_annotations(ended, current_frame)
        new == NewAnnotation(current_frame, new_annotation_type)
    IN /\ Len(annotations) <= MaxAnn
       /\ annotations' = <<new>> \o updated
       /\ current_annotation' = new
       /\ cur_index' = 1
       /\ last' = [op |-> "annotate", frame |-> current_frame,
                   type |-> new_annotation_type,
                   raised |-> (total_frames = Unset), pre |-> Pre]
       /\ UNCHANGED <<capture, total_frames>>

\* annotate: a label button at capture position pos
annotate(new_annotation_type, pos) ==
    LET current_frame == get_current_video_frame(pos)
        ended == EndCurrent(annotations, current_annotation, cur_index, current_frame)
        updated == process_overlapping_annotations(ended, current_frame)
        new == NewAnnotation(current_frame, new_annotation_type)
    IN /\ Len(annotations) <= MaxAnn
       /\ annotations' = Append(updated, new)
       /\ current_annotation' = new
       /\ cur_index' = Len(updated) + 1
       /\ last' = [op |-> "annotate", frame |-> current_frame,
                   type |-> new_annotation_type,
                   raised |-> (total_frames = Unset), pre |-> Pre]
       /\ UNCHANGED <<capture, total_frames>>

\* the test is "if self.annotations" and the write goes to the last
\* annotation of the list
next_frame_AnyAnnotation(current_frame, ret) ==
    /\ IF capture /\ ret /\ annotations # <<>>
       THEN /\ annotations' = [annotations EXCEPT ![Len(annotations)] =
                                   Extend(annotations[Len(annotations)], current_frame)]
            /\ current_annotation' = IF cur_index # 0
                                     THEN Extend(current_annotation, current_frame)
                                     ELSE current_annotation
       ELSE UNCHANGED <<annotations, current_annotation>>
    /\ last' = [op |-> "next_frame", frame |-> current_frame,
                extended |-> (capture /\ ret), pre |-> Pre]
    /\ UNCHANGED <<cur_index, capture, total_frames>>

\* next_frame: one timer tick; current_frame is the capture position before
\* capture.read() and ret its result.  The write to current_annotation goes
\* through the alias, so the element of annotations changes with it.
next_frame(current_frame, ret) ==
    /\ IF capture /\ ret /\ current_annotation # None
       THEN /\ current_annotation' = Extend(current_annotation, current_frame)
            /\ annotations' = ExtendAliased(annotations, cur_index, current_frame)
       ELSE UNCHANGED <<annotations, current_annotation>>
    /\ last' = [op |-> "next_frame", frame |-> current_frame,
                extended |-> (capture /\ ret), pre |-> Pre]
    /\ UNCHANGED <<cur_index, capture, total_frames>>

\* the header line to_csv writes for the dicts of annotate
Columns == <<"start_frame", "end_frame", "type">>

\* a dict as a row: the values in column order (the column order is the key
\* order of the dicts, the same in every dict the program builds or loads)
Row(annotation) == <<annotation.start_frame, annotation.end_frame, annotation.type>>

\* a row read back as a dict (read_csv(...).to_dict('records'))
Record(row) == [start_frame |-> row[1], end_frame |-> row[2], type |-> row[3]]

\* written with header=False: the first row stands where the header line is
\* read
to_csv_NoHeader(anns) ==
    IF anns = <<>>
    THEN [header |-> <<>>, rows |-> <<>>]
    ELSE [header |-> Row(anns[1]),
          rows |-> [i \in 1..(Len(anns) - 1) |-> Row(anns[i + 1])]]

\* pd.DataFrame(self.annotations).to_csv(file_name, index=False): the rows in
\* list order; an empty list makes a frame without columns, written as a
\* file without a header
to_csv(anns) ==
    IF anns = <<>>
    THEN [header |-> <<>>, rows |-> <<>>]
    ELSE [header |-> Columns, rows |-> [i \in 1..Len(anns) |-> Row(anns[i])]]

\* pd.read_csv(file_name).to_dict('records')
read_csv(file) == [i \in 1..Len(file.rows) |-> Record(file.rows[i])]

\* read_csv raises EmptyDataError on a file without a header line
Unreadable(file) == file.header = <<>>

\* save_annotations: file_name is empty when the dialog is cancelled.  The
\* current annotation is not reset.  (The plotting that follows the write
\* changes no state of the application.)
save_annotations(chosen) ==
    /\ IF chosen
       THEN /\ annotations' = <<>>
            /\ cur_index' = 0
       ELSE UNCHANGED <<annotations, cur_index>>
    /\ last' = [op |-> "save_annotations", chosen |-> chosen,
                file |-> to_csv(annotations), pre |-> Pre]
    /\ UNCHANGED <<current_annotation, capture, total_frames>>

\* load_annotations with a file chosen: the list is replaced by the rows of
\* the file, the current annotation is not reset.  exported tells that the
\* file is the one the preceding save wrote, and saved is the state that
\* save started from.
load_annotations(file, exported) ==
    /\ IF Unreadable(file)
       THEN UNCHANGED <<annotations, cur_index>>
       ELSE /\ annotations' = read_csv(file)
            /\ cur_index' = 0
    /\ last' = [op |-> "load_annotations", file |-> file,
                raised |-> (Unreadable(file) \/ total_frames = Unset),
                exported |-> exported,
                saved |-> IF exported THEN last.pre ELSE None,
                pre |-> Pre]
    /\ UNCHANGED <<current_annotation, capture, total_frames>>

Ann(s, e, l) == [start_frame |-> s, end_frame |-> e, type |-> l]

\* the rows of the CSV files the user can pick: none, one annotation, two
\* annotations that share frame 1, one with end_frame < start_frame, two in
\* descending order
Records ==
    { <<>>,
      <<Ann(0, 2, "Upside Down")>>,
      <<Ann(0, 1, "Upside Down"), Ann(1, 2, "Right Side Up")>>,
      <<Ann(2, 1, "Right Side Up")>>,
      <<Ann(2, 2, "Right Side Up"), Ann(0, 0, "Upside Down")>> }

CsvFiles ==
    {[header |-> Columns, rows |-> [i \in 1..Len(r) |-> Row(r[i])]] : r \in Records}

\* the file the preceding operation wrote, if it was a save
JustSaved ==
    IF last.op = "save_annotations" /\ last.chosen THEN {last.file} ELSE {}

DoLoadVideo == \E count \in FrameCounts : load_video(count)
DoAnnotate == \E l \in Labels, pos \in Frames : annotate(l, pos)
DoNextFrame == \E f \in Frames, ret \in BOOLEAN : next_frame(f, ret)
DoSave == \E chosen \in BOOLEAN : save_annotations(chosen)
DoLoad == \E file \in CsvFiles : load_annotations(file, FALSE)
DoLoadSaved == \E file \in JustSaved : load_annotations(file, TRUE)

Next == DoLoadVideo \/ DoAnnotate \/ DoNextFrame \/ DoSave \/ DoLoad

Spec == Init /\ [][Next]_vars

\* the annotation session alone: begin, extend and finalize
NextEdit == DoLoadVideo \/ DoAnnotate \/ DoNextFrame \/ DoSave

SpecEdit == Init /\ [][NextEdit]_vars

\* forward-only playback: a video is loaded into the fresh application, and
\* from then on the capture position never moves back: every label button
\* and every timer tick comes at a frame not before the frame of the
\* operation before it
InitForward ==
    /\ annotations = <<>>
    /\ current_annotation = None
    /\ cur_index = 0
    /\ capture = TRUE
    /\ total_frames \in FrameCounts
    /\ last = [op |-> "load_video",
               pre |-> [annotations |-> <<>>, current_annotation |-> None,
                        cur_index |-> 0]]

\* the frame of the operation before
Position == IF last.op \in {"annotate", "next_frame"} THEN last.frame ELSE 0

DoAnnotateForward ==
    \E l \in Labels, pos \in Frames : pos >= Position /\ annotate(l, pos)

DoNextFrameForward ==
    \E f \in Frames, ret \in BOOLEAN : f >= Position /\ next_frame(f, ret)

NextForward == DoAnnotateForward \/ DoNextFrameForward

SpecForward == InitForward /\ [][NextForward]_vars

\* saving and loading alone, from any list a loaded file can leave (a file
\* of at most MaxRows rows over the frames and labels of the model), with no
\* annotation in progress, before or after a video is loaded.  The rows of
\* a file are read one by one, so two rows show every effect of their order.
MaxRows == 2

Timelines ==
    UNION {[1..n -> Annotation] : n \in 0..MaxRows}

InitFile ==
    /\ annotations \in Timelines
    /\ current_annotation = None
    /\ cur_index = 0
    /\ capture \in BOOLEAN
    /\ total_frames = IF capture THEN 2 ELSE Unset
    /\ last = [op |-> "init"]

NextFile == DoSave \/ DoLoadSaved

SpecFile == InitFile /\ [][NextFile]_vars

\* the widths of the timeline widget are 1..MaxWidth
MaxWidth == 5

Widths == 1..MaxWidth

\* the frame counts the widget is given: 0 (no video yet) up to one more
\* than the largest frame of an annotation
Totals == 0..(MaxFrame + 1)

\* Python's round() of the float n / d for n >= 0, d > 0: the nearest
\* integer, a tie going to the even one.  (On the ranges of this model the
\* float expressions of paintEvent give exactly this value.)
round(n, d) ==
    LET q == n \div d
        r == n % d
    IN IF 2 * r < d THEN q
       ELSE IF 2 * r > d THEN q + 1
       ELSE IF q % 2 = 0 THEN q ELSE q + 1

\* the start is truncated by int() without round()
start_x_Truncated(annotation, rect_width) ==
    (annotation.start_frame * rect_width) \div total_frames

\* int(round((start_frame / self.total_frames) * rect.width()))
start_x(annotation, rect_width) ==
    round(annotation.start_frame * rect_width, total_frames)

\* the end is projected without the "+ 1"
end_x_Exclusive(annotation, rect_width) ==
    round(annotation.end_frame * rect_width, total_frames)

\* int(round(((end_frame + 1) / self.total_frames) * rect.width()))
end_x(annotation, rect_width) ==
    round((annotation.end_frame + 1) * rect_width, total_frames)

\* the width is not raised to 1 pixel
FillRect_NoFloor(annotation, rect_width) ==
    LET width == end_x(annotation, rect_width) - start_x(annotation, rect_width)
    IN [start_x |-> start_x(annotation, rect_width),
        width |-> width,
        type |-> annotation.type]

\* the rectangle painter.fillRect draws for one annotation
FillRect(annotation, rect_width) ==
    LET width == end_x(annotation, rect_width) - start_x(annotation, rect_width)
    IN [start_x |-> start_x(annotation, rect_width),
        width |-> IF width < 1 THEN 1 ELSE width,
        type |-> annotation.type]

\* paintEvent: the rectangles in list order when total_frames is not 0, and
\* the position of the time indicator line when total_frames > 0
paintEvent(rect_width, current_frame) ==
    /\ last' = [op |-> "paintEvent", rect_width |-> rect_width,
                current_frame |-> current_frame,
                rects |-> IF total_frames # 0
                          THEN [i \in 1..Len(annotations) |->
                                    FillRect(annotations[i], rect_width)]
                          ELSE <<>>,
                current_x |-> IF total_frames > 0
                              THEN round(current_frame * rect_width, total_frames)
                              ELSE None]
    /\ UNCHANGED <<annotations, current_annotation, cur_index, capture, total_frames>>

DoPaint ==
    \E rect_width \in Widths, current_frame \in 0..(MaxFrame + 1) :
        paintEvent(rect_width, current_frame)

\* the lists the widget is given: up to MaxRows annotations over the frames
\* of the model (the type of an annotation only selects the colour of its
\* rectangle, so one type is enough)
PaintTimelines ==
    UNION {[1..n -> [start_frame : Frames, end_frame : Frames,
                     type : {"Upside Down"}]] : n \in 0..MaxRows}

\* the widget after set_annotations: any list a loaded file can leave and
\* any frame count
InitPaint ==
    /\ annotations \in PaintTimelines
    /\ current_annotation = None
    /\ cur_index = 0
    /\ capture = TRUE
    /\ total_frames \in Totals
    /\ last = [op |-> "init"]

NextPaint == DoPaint

SpecPaint == InitPaint /\ [][NextPaint]_vars

\* the dict current_annotation refers to is the last element of annotations
\* or an element of no list
TypeOK ==
    /\ \A i \in 1..Len(annotations) : annotations[i] \in Annotation
    /\ current_annotation \in Annotation \cup {None}
    /\ cur_index \in {0, Len(annotations)}
    /\ cur_index # 0 => annotations[cur_index] = current_annotation
    /\ capture \in BOOLEAN
    /\ total_frames \in FrameCounts \cup {Unset}
    /\ capture <=> total_frames # Unset

\* ---------------------------------------------------------------- claims
\* The intervals of the timeline are the elements of the list annotations.
\* The active interval is the dict the nullable field current_annotation
\* refers to: the code tests "if self.current_annotation" wherever it asks
\* whether an annotation is in progress.  While that dict is an element of
\* annotations (cur_index # 0) the other elements are the closed intervals.

\* the frames of the closed range [start_frame, end_frame]
Range(a) == {x \in 0..(MaxFrame + 1) : Contains(a, x)}

NonOverlap(anns) ==
    \A i, j \in 1..Len(anns) : i # j => Range(anns[i]) \cap Range(anns[j]) = {}

WellFormed(anns) ==
    \A i \in 1..Len(anns) : 0 <= anns[i].start_frame
                            /\ anns[i].start_frame <= anns[i].end_frame

Began == last.op = "annotate"
Extended == last.op = "next_frame" /\ last.extended

\* the indices of the intervals that were closed before the last operation
ClosedBefore == (1..Len(last.pre.annotations)) \ {last.pre.cur_index}

\* C1: after every call of a sequence of begin, extend and finalize calls that
\* starts from the empty timeline, no two distinct intervals of the timeline
\* (the active one included) share a frame.
C1_NonOverlap == NonOverlap(annotations)

\* C2: after every operation every interval of the timeline satisfies
\* 0 <= start_frame <= end_frame, also when begin or extend is called with a
\* frame earlier than the active interval's start_frame.
C2_WellFormed == WellFormed(annotations)

\* C3: immediately after begin(label, at_frame) exactly one interval's closed
\* range contains at_frame, and it is the new interval
\* {at_frame, at_frame, label}; no earlier interval retains at_frame.
C3_ExclusiveClaim ==
    Began =>
        /\ {i \in 1..Len(annotations) : Contains(annotations[i], last.frame)}
               = {Len(annotations)}
        /\ annotations[Len(annotations)]
               = [start_frame |-> last.frame, end_frame |-> last.frame,
                  type |-> last.type]

\* begin has acted on a timeline in which a closed interval and the active
\* interval both covered at_frame
C3_Witness ==
    /\ Began
    /\ \E i \in ClosedBefore : Contains(last.pre.annotations[i], last.frame)
    /\ last.pre.cur_index # 0
    /\ Contains(last.pre.current_annotation, last.frame)

\* C4: if an interval {s, e, L1} is active and begin(L2, f) is called with
\* f > s, then afterwards the previously active interval is the closed
\* interval {s, f-1, L1} and the active interval is {f, f, L2}.
C4_HandOver ==
    (Began /\ last.pre.current_annotation # None
           /\ last.frame > last.pre.current_annotation.start_frame) =>
        LET n == Len(annotations)
            old == last.pre.current_annotation
        IN /\ n >= 2
           /\ annotations[n - 1] = [start_frame |-> old.start_frame,
                                    end_frame |-> last.frame - 1,
                                    type |-> old.type]
           /\ annotations[n] = [start_frame |-> last.frame,
                                end_frame |-> last.frame,
                                type |-> last.type]
           /\ cur_index = n
           /\ current_annotation = annotations[n]

\* the pieces the overlap-resolution rules keep of one closed interval
Left(a, f) == [start_frame |-> a.start_frame, end_frame |-> f - 1, type |-> a.type]
Right(a, f) == [start_frame |-> f + 1, end_frame |-> a.end_frame, type |-> a.type]

Interior(a, f) == a.start_frame < f /\ f < a.end_frame
Single(a, f) == a.start_frame = f /\ a.end_frame = f
AtStart(a, f) == a.start_frame = f /\ f < a.end_frame
AtEnd(a, f) == a.start_frame < f /\ a.end_frame = f

Kept(a, f) ==
    CASE Interior(a, f) -> 2
      [] Single(a, f) -> 0
      [] AtStart(a, f) -> 1
      [] AtEnd(a, f) -> 1
      [] OTHER -> 1

\* the timeline as begin's first step leaves it: the active interval ends at f
Closing(pre, f) ==
    IF pre.cur_index # 0
    THEN [pre.annotations EXCEPT ![pre.cur_index].end_frame = f]
    ELSE pre.annotations

\* how many intervals the first i-1 intervals leave behind
RECURSIVE Offset(_, _, _)
Offset(anns, i, f) ==
    IF i = 1 THEN 0 ELSE Offset(anns, i - 1, f) + Kept(anns[i - 1], f)

\* the timeline holds what the rules keep of every interval, and the new one
NothingElse ==
    Len(annotations)
        = Offset(Closing(last.pre, last.frame), Len(last.pre.annotations) + 1,
                 last.frame) + 1

\* C5: when begin(label, f) is called and a closed interval {s, e, L} has
\* s < f < e, the interval is replaced by exactly the two intervals
\* {s, f-1, L} and {f+1, e, L}, and nothing else derived from it exists.
C5_InteriorSplit ==
    Began =>
        \A i \in ClosedBefore :
            LET a == last.pre.annotations[i]
                k == Offset(last.pre.annotations, i, last.frame)
            IN Interior(a, last.frame) =>
                   /\ SubSeq(annotations, k + 1, k + 2)
                          = <<Left(a, last.frame), Right(a, last.frame)>>
                   /\ NothingElse

\* begin has split a closed interval at an interior frame while another
\* interval was active
C5_Witness ==
    /\ Began
    /\ last.pre.cur_index # 0
    /\ \E i \in ClosedBefore : Interior(last.pre.annotations[i], last.frame)

\* C6: when begin(label, f) is called and a closed interval {s, e, L} has f at
\* a boundary: s = f = e drops the interval, f = s < e keeps only
\* {f+1, e, L}, s < e = f keeps only {s, f-1, L}.
C6_BoundaryTruncation ==
    Began =>
        \A i \in ClosedBefore :
            LET a == last.pre.annotations[i]
                f == last.frame
                k == Offset(last.pre.annotations, i, f)
            IN /\ Single(a, f) =>
                      /\ NothingElse
                      /\ \A j \in 1..(Len(annotations) - 1) :
                             ~Contains(annotations[j], f)
               /\ AtStart(a, f) =>
                      /\ NothingElse
                      /\ annotations[k + 1] = Right(a, f)
               /\ AtEnd(a, f) =>
                      /\ NothingElse
                      /\ annotations[k + 1] = Left(a, f)

\* begin has met a closed interval that starts at f and one that ends at f
C6_Witness ==
    /\ Began
    /\ \E i \in ClosedBefore : AtStart(last.pre.annotations[i], last.frame)
    /\ \E i \in ClosedBefore : AtEnd(last.pre.annotations[i], last.frame)

\* the frames covered by a timeline
Covered(anns) == UNION {Range(anns[i]) : i \in 1..Len(anns)}

SplitsInterior ==
    /\ Began
    /\ NonOverlap(last.pre.annotations)
    /\ \E i \in ClosedBefore : Interior(last.pre.annotations[i], last.frame)

Conserved ==
    /\ Covered(annotations) = Covered(last.pre.annotations)
    /\ Covered(SubSeq(annotations, 1, Len(annotations) - 1))
           = Covered(last.pre.annotations) \ {last.frame}

\* C7: for a timeline satisfying I1, when begin(label, f) splits an interval
\* at an interior frame f, the covered frames after the call are the covered
\* frames before it, and the earlier intervals lose exactly frame f.
C7_CoverageConservation == SplitsInterior => Conserved

\* at most one element of the list is the one playback extends, and after
\* begin it is the new interval {f, f, label}, appended last
C8_State ==
    /\ cur_index \in 0..Len(annotations)
    /\ Began =>
           /\ cur_index = Len(annotations)
           /\ annotations[cur_index] = [start_frame |-> last.frame,
                                        end_frame |-> last.frame,
                                        type |-> last.type]
           /\ current_annotation = annotations[cur_index]

\* an extend that follows a begin leaves every earlier interval, the
\* previously active one included, as the begin left it
C8_Step ==
    (Began /\ last'.op = "next_frame") =>
        /\ Len(annotations') = Len(annotations)
        /\ \A i \in 1..(Len(annotations) - 1) : annotations'[i] = annotations[i]

\* C8: in every reachable state at most one interval is active; after
\* begin(label, f) the active interval is exactly {f, f, label}, and an
\* interval that was active before the call is closed: it is not extended
\* any more.
C8_SingleActive == [](C8_State) /\ [][C8_Step]_vars

\* begin has replaced an active interval, which stays in the list as a
\* closed interval next to an older one
C8_Witness ==
    /\ Began
    /\ last.pre.cur_index # 0
    /\ Len(annotations) = Len(last.pre.annotations) + 1
    /\ Len(annotations) >= 3

\* C9: when an interval is active, extend(to_frame) sets the active
\* interval's end_frame to to_frame and changes nothing else: not its
\* start_frame or label, no closed interval, not the order.
C9_ExtendEffect ==
    (Extended /\ last.pre.current_annotation # None) =>
        LET k == last.pre.cur_index
            old == last.pre.annotations
            active == last.pre.current_annotation
        IN /\ current_annotation.end_frame = last.frame
           /\ current_annotation.start_frame = active.start_frame
           /\ current_annotation.type = active.type
           /\ Len(annotations) = Len(old)
           /\ cur_index = k
           /\ \A i \in 1..Len(old) : i # k => annotations[i] = old[i]
           /\ k # 0 => annotations[k] = current_annotation

\* extend has moved the active interval's end onto a frame a closed interval
\* covers, and the closed interval is still there
C9_Witness ==
    /\ Extended
    /\ last.pre.cur_index # 0
    /\ last.frame # last.pre.current_annotation.end_frame
    /\ \E i \in 1..Len(annotations) :
           i # cur_index /\ Contains(annotations[i], last.frame)

\* C10: if no interval is active, extend(to_frame) leaves the intervals and
\* the absent active interval unchanged, for every to_frame.
C10_ExtendNoActive ==
    (Extended /\ last.pre.current_annotation = None) =>
        /\ annotations = last.pre.annotations
        /\ current_annotation = None
        /\ cur_index = 0

\* extend has been called on a timeline with intervals and none active
C10_Witness ==
    /\ Extended
    /\ last.pre.current_annotation = None
    /\ Len(last.pre.annotations) >= 2

Saved == last.op = "save_annotations" /\ last.chosen

\* the records of a written file
Exported(file) == {Record(file.rows[i]) : i \in 1..Len(file.rows)}

\* C11: finalize closes the recording: an active interval is recorded among
\* the closed intervals with its current end_frame and no interval is active
\* afterwards, so a later extend finds nothing to extend.
C11_FinalizeCloses ==
    Saved =>
        /\ last.pre.current_annotation # None =>
               last.pre.current_annotation \in Exported(last.file)
        /\ current_annotation = None

\* what export() returns in the current state: the rows save_annotations
\* would write
export == to_csv(annotations)

\* C12: in every state reachable by begin, extend, finalize/save and load, if
\* an interval is active then the sequence export() returns contains that
\* interval with its current end_frame.
C12_ExportIncludesActive ==
    current_annotation # None => current_annotation \in Exported(export)

\* the rows of a file are in ascending order of start_frame
SortedByStart(file) ==
    \A i, j \in 1..Len(file.rows) : i < j => file.rows[i][1] <= file.rows[j][1]

\* C13: for every reachable timeline the records export() produces are sorted
\* by start_frame in ascending order, also when a later begin uses a smaller
\* frame than an earlier one.
C13_ExportSorted == SortedByStart(export)

\* the last operation loaded the file the save before it wrote
Reloaded == last.op = "load_annotations" /\ last.exported

\* C14: for a timeline T with no active interval, load(export(T)) yields a
\* timeline whose intervals are identical to T's: the same start_frame,
\* end_frame and label for every interval, nothing added or lost.
C14_RoundTrip ==
    (Reloaded /\ last.saved.current_annotation = None) =>
        annotations = last.saved.annotations

\* a timeline of two different intervals, not in ascending order, has been
\* saved and loaded back
C14_Witness ==
    /\ Reloaded
    /\ last.saved.current_annotation = None
    /\ Len(last.saved.annotations) = 2
    /\ last.saved.annotations[1].start_frame > last.saved.annotations[2].start_frame
    /\ last.saved.annotations[1].type # last.saved.annotations[2].type
    /\ last.pre.annotations = <<>>

Loaded == last.op = "load_annotations" /\ ~Unreadable(last.file)

\* C15: after load(records), from any prior state, the intervals are exactly
\* the given records in the given order (I1 is not validated) and no interval
\* is active, so a following extend changes nothing.
C15_LoadReplaces ==
    Loaded =>
        /\ annotations = read_csv(last.file)
        /\ current_annotation = None

VideoLoaded == last.op = "load_video"

\* C16: whenever a new video is loaded, from any prior state, the timeline is
\* replaced wholesale: it has no intervals and no active interval, so no
\* annotation made on a previous video is in the timeline or in a later
\* export.
C16_NoMergeAcrossVideos ==
    VideoLoaded =>
        /\ annotations = <<>>
        /\ current_annotation = None
        /\ export.rows = <<>>

\* C17: begin(label, at_frame) succeeds with no error outcome for every
\* at_frame >= 0, at_frame >= total_frames included, and stores the interval
\* {at_frame, at_frame, label} as it is, without clamping or rejecting.
C17_BeginTotal ==
    Began =>
        /\ ~last.raised
        /\ annotations # <<>>
        /\ annotations[Len(annotations)] = Ann(last.frame, last.frame, last.type)
        /\ current_annotation = Ann(last.frame, last.frame, last.type)

\* what the overlap-resolution rules keep of the interval a, in order
Survivors(a, f) ==
    CASE Interior(a, f) -> <<Left(a, f), Right(a, f)>>
      [] Single(a, f) -> <<>>
      [] AtStart(a, f) -> <<Right(a, f)>>
      [] AtEnd(a, f) -> <<Left(a, f)>>
      [] OTHER -> <<a>>

\* C20: begin(label, f) leaves every closed interval whose range does not
\* contain f unchanged; the surviving earlier intervals and the split pieces
\* stand in the order the intervals had, and the new interval is last.
C20_BeginFrame ==
    Began =>
        LET f == last.frame
            old == Closing(last.pre, f)
        IN /\ \A i \in ClosedBefore :
                  ~Contains(old[i], f) =>
                      annotations[Offset(old, i, f) + 1] = last.pre.annotations[i]
           /\ \A i \in 1..Len(old) :
                  SubSeq(annotations, Offset(old, i, f) + 1,
                         Offset(old, i, f) + Kept(old[i], f)) = Survivors(old[i], f)
           /\ NothingElse
           /\ annotations[Len(annotations)] = Ann(f, f, last.type)

\* begin has met a closed interval that does not contain f standing before
\* one that contains f and is truncated
C20_Witness ==
    /\ Began
    /\ \E i, j \in ClosedBefore :
           /\ i < j
           /\ ~Contains(last.pre.annotations[i], last.frame)
           /\ Contains(last.pre.annotations[j], last.frame)
           /\ Kept(last.pre.annotations[j], last.frame) = 1

Painted == last.op = "paintEvent"

\* the pixel bounds of an interval as the projection defines them
PixelStart(a) == round(a.start_frame * last.rect_width, total_frames)
PixelEnd(a) == round((a.end_frame + 1) * last.rect_width, total_frames)

Max(x, y) == IF x >= y THEN x ELSE y

\* C18: for every interval (any start_frame and end_frame), every
\* total_frames >= 1 and every pixel_width >= 1 the span the projection
\* produces has width max(1, pixel_end - pixel_start), which is >= 1.
C18_VisibilityFloor ==
    (Painted /\ total_frames >= 1) =>
        /\ Len(last.rects) = Len(annotations)
        /\ \A i \in 1..Len(annotations) :
               /\ last.rects[i].width
                      = Max(1, PixelEnd(annotations[i]) - PixelStart(annotations[i]))
               /\ last.rects[i].width >= 1

\* an interval whose pixel bounds coincide and one with end_frame <
\* start_frame whose pixel_end is left of its pixel_start have been drawn
C18_Witness ==
    /\ Painted
    /\ total_frames >= 1
    /\ \E i \in 1..Len(annotations) :
           PixelEnd(annotations[i]) = PixelStart(annotations[i])
    /\ \E i \in 1..Len(annotations) :
           PixelEnd(annotations[i]) < PixelStart(annotations[i])

\* the interval covers the whole video
FullRange(a) == a.start_frame = 0 /\ a.end_frame = total_frames - 1

\* C19: for every total_frames >= 1 and pixel_width >= 1 an interval covering
\* [0, total_frames - 1] projects to pixel_start 0 and a span as wide as the
\* bar, and current_frame = total_frames projects to current_pixel =
\* pixel_width.
C19_FullRange ==
    (Painted /\ total_frames >= 1) =>
        /\ \A i \in 1..Len(annotations) :
               FullRange(annotations[i]) =>
                   /\ last.rects[i].start_x = 0
                   /\ last.rects[i].width = last.rect_width
        /\ last.current_frame = total_frames => last.current_x = last.rect_width

\* a whole-video interval of several frames has been drawn on a bar whose
\* width is not a multiple of the frame count, with the indicator at
\* total_frames
C19_Witness ==
    /\ Painted
    /\ total_frames >= 2
    /\ last.rect_width % total_frames # 0
    /\ \E i \in 1..Len(annotations) : FullRange(annotations[i])
    /\ last.current_frame = total_frames

\* C21: starting from an empty timeline, for every sequence of begin and
\* extend calls whose frames never decrease, every reachable state has its
\* intervals pairwise disjoint (I1) and start_frame <= end_frame in every
\* interval (I2).
C21_ForwardValid == NonOverlap(annotations) /\ WellFormed(annotations)

\* playback has extended the active interval over several frames and a begin
\* at its last frame has truncated it, next to an older closed interval
C21_Witness ==
    /\ Began
    /\ Len(annotations) >= 3
    /\ last.pre.cur_index # 0
    /\ last.pre.current_annotation.end_frame = last.frame
    /\ last.pre.current_annotation.start_frame < last.frame

\* the interval b starts at the frame after the last frame of a
Adjacent(a, b) ==
    /\ a.start_frame <= a.end_frame
    /\ b.start_frame = a.end_frame + 1
    /\ b.start_frame <= b.end_frame

\* C22: for every total_frames >= 1, pixel_width >= 1 and two intervals
\* {a, b} and {b+1, c} with a <= b < c, the projected pixel_end of the first
\* equals the projected pixel_start of the second, and the two spans leave no
\* uncoloured pixel between them.
C22_AdjacentNoGap ==
    (Painted /\ total_frames >= 1) =>
        \A i, j \in 1..Len(annotations) :
            Adjacent(annotations[i], annotations[j]) =>
                /\ last.rects[j].start_x = PixelEnd(annotations[i])
                /\ last.rects[i].start_x + last.rects[i].width
                       >= last.rects[j].start_x

\* two adjacent intervals have been drawn where the common pixel bound is a
\* rounded one
C22_Witness ==
    /\ Painted
    /\ total_frames >= 1
    /\ \E i, j \in 1..Len(annotations) :
           /\ Adjacent(annotations[i], annotations[j])
           /\ (annotations[j].start_frame * last.rect_width) % total_frames # 0
           /\ PixelEnd(annotations[i]) > PixelStart(annotations[i])

\* the interval lies within the video
InRange(a) == 0 <= a.start_frame /\ a.start_frame <= a.end_frame
              /\ a.end_frame < total_frames

\* C23: for every total_frames >= 1, pixel_width >= 1 and interval with
\* 0 <= start_frame <= end_frame < total_frames, the projected span lies
\* within the bar: 0 <= pixel_start and pixel_start + span width <=
\* pixel_width.
C23_InsideBar ==
    (Painted /\ total_frames >= 1) =>
        \A i \in 1..Len(annotations) :
            InRange(annotations[i]) =>
                /\ 0 <= last.rects[i].start_x
                /\ last.rects[i].start_x + last.rects[i].width <= last.rect_width
====
